---- MODULE Spec2Model ----
(***************************************************************************)
(* Model of calc_pedido.py (catalog de-duplication and order enrichment).  *)
(*                                                                         *)
(* Two files carry the program: src/calc_pedido.py (deduplicate_catalog,   *)
(* calcular) and src/downloads/calc_pedido.py (deduplicate_catalog, main). *)
(* The two deduplicate_catalog bodies are statement-for-statement the same *)
(* and are modelled once.                                                  *)
(*                                                                         *)
(* Data representation                                                     *)
(*   - a pandas cell that may be NaN/None is a record with a flag "na";    *)
(*   - a number is an exact fraction n/d in lowest terms (float rounding   *)
(*     is not modelled);                                                   *)
(*   - a product name is a sequence of one-character strings;              *)
(*   - a DataFrame is the sequence of its rows, in row order; the row      *)
(*     labels of the catalog are those of read_excel (a RangeIndex), so a  *)
(*     label identifies exactly one row and is modelled by the position.   *)
(***************************************************************************)
EXTENDS Integers, Sequences, FiniteSets, TLC

(***************************************************************************)
(* Bounds of the explored inputs.                                          *)
(***************************************************************************)
\* rows of the catalog handed to deduplicate_catalog on its own
MaxCat == 2

\* rows of catalog and order together in one run of calcular or main
MaxRows == 3

(***************************************************************************)
(* Nullable exact numbers.                                                 *)
(***************************************************************************)
NA == [na |-> TRUE, n |-> 0, d |-> 1]

Abs(x) == IF x < 0 THEN -x ELSE x

RECURSIVE GCD(_, _)
GCD(a, b) == IF b = 0 THEN a ELSE GCD(b, a % b)

Frac(n, d) ==
  LET s == IF d < 0 THEN -1 ELSE 1
      g == GCD(Abs(n), Abs(d))
  IN  [na |-> FALSE, n |-> (s * n) \div g, d |-> (s * d) \div g]

Num(k) == [na |-> FALSE, n |-> k, d |-> 1]

IsZero(a) == (~a.na) /\ a.n = 0

NumLess(a, b) == a.n * b.d < b.n * a.d

\* float arithmetic of pandas columns: NaN in either operand gives NaN
Add(a, b) == IF a.na \/ b.na THEN NA ELSE Frac(a.n * b.d + b.n * a.d, a.d * b.d)

Sub(a, b) == IF a.na \/ b.na THEN NA ELSE Frac(a.n * b.d - b.n * a.d, a.d * b.d)

Mul(a, b) == IF a.na \/ b.na THEN NA ELSE Frac(a.n * b.n, a.d * b.d)

\* only used with a divisor that is NA or non-zero
Div(a, b) == IF a.na \/ b.na THEN NA ELSE Frac(a.n * b.d, a.d * b.n)

\* Series.fillna(v)
fillna(a, v) == IF a.na THEN v ELSE a

(***************************************************************************)
(* Product names and norm_text.                                            *)
(***************************************************************************)
NullName == [na |-> TRUE, s |-> <<>>]

Str(s) == [na |-> FALSE, s |-> s]

IsSpace(c) == c = " "

Upper(c) == IF c = "x" THEN "X" ELSE IF c = "y" THEN "Y" ELSE c

\* code points, for the ordering of group keys
Ord(c) ==
  IF c = " " THEN 32 ELSE IF c = "X" THEN 88 ELSE IF c = "Y" THEN 89
  ELSE IF c = "x" THEN 120 ELSE 121

RECURSIVE LStrip(_)
LStrip(s) == IF s # <<>> /\ IsSpace(Head(s)) THEN LStrip(Tail(s)) ELSE s

RECURSIVE RStrip(_)
RStrip(s) ==
  IF s # <<>> /\ IsSpace(s[Len(s)]) THEN RStrip(SubSeq(s, 1, Len(s) - 1)) ELSE s

\* str.strip()
Strip(s) == RStrip(LStrip(s))

\* re.sub(r"\s+", " ", s)
RECURSIVE CollapseSpaces(_)
CollapseSpaces(s) ==
  IF s = <<>> THEN <<>>
  ELSE IF IsSpace(Head(s))
       THEN <<" ">> \o CollapseSpaces(LStrip(s))
       ELSE <<Head(s)>> \o CollapseSpaces(Tail(s))

\* str.upper()
UpperAll(s) == [i \in 1..Len(s) |-> Upper(s[i])]

norm_text(name) ==
  IF name.na THEN <<>> ELSE UpperAll(CollapseSpaces(Strip(name.s)))

RECURSIVE LexLess(_, _)
LexLess(a, b) ==
  IF b = <<>> THEN FALSE
  ELSE IF a = <<>> THEN TRUE
  ELSE IF Ord(Head(a)) # Ord(Head(b)) THEN Ord(Head(a)) < Ord(Head(b))
  ELSE LexLess(Tail(a), Tail(b))

(***************************************************************************)
(* Input domains.                                                          *)
(***************************************************************************)
ProductNames ==
  { NullName,
    Str(<<"x", " ", " ", "y">>),
    Str(<<" ", "X", " ", "y", " ">>) }

Prices == {NA, Num(1), Num(2)}

CatalogRows ==
  [producto : ProductNames, precio_compra : Prices, precio_venta : Prices]

RecognizedPolicies == {"first", "max_venta", "min_costo", "avg"}

PolicyValues == RecognizedPolicies \cup {"bogus"}

Range(s) == {s[i] : i \in 1..Len(s)}

SeqsUpTo(S, k) == UNION {[1..m -> S] : m \in 0..k}

(***************************************************************************)
(* deduplicate_catalog                                                     *)
(***************************************************************************)
\* the "producto" column through norm_text
Keys(df) == [i \in 1..Len(df) |-> norm_text(df[i].producto)]

\* base = df_cat.copy(); base["_key"] = base["producto"].apply(norm_text)
Base(df) == [i \in 1..Len(df) |-> [row |-> df[i], key |-> norm_text(df[i].producto)]]

\* duplicated("_key") with keep="first" in place of keep=False: the first row
\* of a repeated key is not marked
DupMask_KeepFirst(base) ==
  [i \in 1..Len(base) |-> \E j \in 1..(i - 1) : base[j].key = base[i].key]

\* base.duplicated("_key", keep=False)
DupMask(base) ==
  [i \in 1..Len(base) |-> \E j \in 1..Len(base) : j # i /\ base[j].key = base[i].key]

\* boolean-mask row selection df[mask]; row order is kept
RECURSIVE SelectRows(_, _)
SelectRows(df, mask) ==
  IF df = <<>> THEN <<>>
  ELSE (IF Head(mask) THEN <<Head(df)>> ELSE <<>>)
       \o SelectRows(Tail(df), Tail(mask))

NotMask(mask) == [i \in 1..Len(mask) |-> ~mask[i]]

\* groupby("_key") iterates the groups in ascending key order
RECURSIVE SortedKeys(_)
SortedKeys(S) ==
  IF S = {} THEN <<>>
  ELSE LET m == CHOOSE k \in S : \A o \in S \ {k} : LexLess(k, o)
       IN  <<m>> \o SortedKeys(S \ {m})

\* the rows of one group, in their original order, without the "_key" column
Group(dups, key) ==
  LET sel == SelectRows(dups, [i \in 1..Len(dups) |-> dups[i].key = key])
  IN  [i \in 1..Len(sel) |-> sel[i].row]

\* Series.nunique(dropna=False): NaN counts as one value
nunique(col) == Cardinality({col[i] : i \in 1..Len(col)})

Compra(g) == [i \in 1..Len(g) |-> g[i].precio_compra]

Venta(g) == [i \in 1..Len(g) |-> g[i].precio_venta]

\* nunique() with its default dropna=True in place of dropna=False
AllPricesEqual_DropNA(g) ==
  /\ Cardinality({Compra(g)[i] : i \in {j \in 1..Len(g) : ~Compra(g)[j].na}}) = 1
  /\ Cardinality({Venta(g)[i] : i \in {j \in 1..Len(g) : ~Venta(g)[j].na}}) = 1

\* the equality test that precedes the policies
AllPricesEqual(g) == nunique(Compra(g)) = 1 /\ nunique(Venta(g)) = 1

\* Series.astype(float) on a numeric-or-null column: None becomes NaN and
\* numbers keep their value; it raises for no cell of this domain
astype_float(col) == col

\* a scan that lets a later equal cell replace the running best
RECURSIVE ScanMax_Last(_, _, _)
ScanMax_Last(col, i, best) ==
  IF i > Len(col) THEN best
  ELSE IF col[i].na THEN ScanMax_Last(col, i + 1, best)
  ELSE IF best = 0 \/ ~NumLess(col[i], col[best]) THEN ScanMax_Last(col, i + 1, i)
  ELSE ScanMax_Last(col, i + 1, best)

\* nanargmax: one left-to-right scan; a cell replaces the running best only
\* when it is strictly greater, so the first occurrence of the maximum wins;
\* NaN cells are skipped; 0 stands for "no label" (all cells NaN)
RECURSIVE ScanMax(_, _, _)
ScanMax(col, i, best) ==
  IF i > Len(col) THEN best
  ELSE IF col[i].na THEN ScanMax(col, i + 1, best)
  ELSE IF best = 0 \/ NumLess(col[best], col[i]) THEN ScanMax(col, i + 1, i)
  ELSE ScanMax(col, i + 1, best)

\* Series.idxmax()
idxmax(col) == ScanMax(col, 1, 0)

\* nanargmin: as ScanMax, with strictly smaller
RECURSIVE ScanMin(_, _, _)
ScanMin(col, i, best) ==
  IF i > Len(col) THEN best
  ELSE IF col[i].na THEN ScanMin(col, i + 1, best)
  ELSE IF best = 0 \/ NumLess(col[i], col[best]) THEN ScanMin(col, i + 1, i)
  ELSE ScanMin(col, i + 1, best)

\* Series.idxmin()
idxmin(col) == ScanMin(col, 1, 0)

RECURSIVE SumSkipNA(_)
SumSkipNA(col) ==
  IF col = <<>> THEN Num(0)
  ELSE IF Head(col).na THEN SumSkipNA(Tail(col))
  ELSE Add(Head(col), SumSkipNA(Tail(col)))

CountNotNA(col) == Cardinality({i \in 1..Len(col) : ~col[i].na})

\* Series.mean(): NaN is skipped; NaN when nothing is left
mean(col) ==
  IF CountNotNA(col) = 0 THEN NA
  ELSE Div(SumSkipNA(col), Num(CountNotNA(col)))

Ok(row) == [err |-> "none", row |-> row]

Raise(e) == [err |-> e, row |-> [producto |-> NullName, precio_compra |-> NA, precio_venta |-> NA]]

\* g.loc[[idx]]: an all-NaN column leaves no label to look up.  Older pandas
\* returns NaN from idxmax and .loc raises KeyError, newer pandas raises
\* ValueError in idxmax itself; either way the call raises.
LocRow(g, idx) == IF idx = 0 THEN Raise("LookupError") ELSE Ok(g[idx])

\* the body of the loop over the groups: one group, one policy
DedupGroup(g, policy) ==
  IF AllPricesEqual(g) THEN Ok(g[1])
  ELSE IF policy = "first" THEN Ok(g[1])
  ELSE IF policy = "max_venta" THEN LocRow(g, idxmax(astype_float(Venta(g))))
  ELSE IF policy = "min_costo" THEN LocRow(g, idxmin(astype_float(Compra(g))))
  ELSE IF policy = "avg"
       THEN Ok([producto      |-> g[1].producto,
                precio_compra |-> mean(astype_float(Compra(g))),
                precio_venta  |-> mean(astype_float(Venta(g)))])
  ELSE Raise("ValueError")

\* dups = base[dup_mask]
Dups(base) == SelectRows(base, DupMask(base))

\* uniques = base[~dup_mask].drop(columns=["_key"])
Uniques(base) ==
  LET sel == SelectRows(base, NotMask(DupMask(base)))
  IN  [i \in 1..Len(sel) |-> sel[i].row]

GroupKeys(dups) == SortedKeys({dups[i].key : i \in 1..Len(dups)})

\* the groups are resolved in key order and the first raise ends the call
deduplicate_catalog(df, policy) ==
  LET base    == Base(df)
      dups    == Dups(base)
      uniques == Uniques(base)
      gk      == GroupKeys(dups)
      res     == [i \in 1..Len(gk) |-> DedupGroup(Group(dups, gk[i]), policy)]
      errs    == {i \in 1..Len(gk) : res[i].err # "none"}
  IN  IF dups = <<>> THEN [err |-> "none", rows |-> uniques]
      ELSE IF errs # {}
      THEN [err  |-> res[CHOOSE i \in errs : \A j \in errs : i <= j].err,
            rows |-> <<>>]
      ELSE [err  |-> "none",
            rows |-> uniques \o [i \in 1..Len(gk) |-> res[i].row]]

(***************************************************************************)
(* Order enrichment: calcular (src/calc_pedido.py) and main                *)
(* (src/downloads/calc_pedido.py).                                         *)
(***************************************************************************)
Quantities == {NA, Num(0), Num(2)}

Discounts == {NA, Frac(1, 2), Num(1)}

PedidoRows ==
  [producto : ProductNames, cantidad : Quantities, descuento : Discounts]

\* columns of the two frames at the time of the merge
PedColumns == <<"producto", "cantidad", "descuento_%", "producto_norm">>

CatColumns == <<"producto", "precio compra", "precio venta", "producto_norm">>

\* DataFrame.merge column naming: a column that is in both frames and is not
\* the join key gets the left or the right suffix
MergedColumns(left, right, on, suffixes) ==
  [i \in 1..Len(left) |->
     IF left[i] # on /\ left[i] \in Range(right)
     THEN left[i] \o suffixes[1] ELSE left[i]]
  \o
  SelectRows(
    [i \in 1..Len(right) |->
       IF right[i] \in Range(left) THEN right[i] \o suffixes[2] ELSE right[i]],
    [i \in 1..Len(right) |-> right[i] # on])

\* drop_duplicates("producto_norm"): the first row of every key is kept
drop_duplicates(rows) ==
  LET k == Keys(rows)
  IN  SelectRows(rows, [i \in 1..Len(rows) |-> \A j \in 1..(i - 1) : k[j] # k[i]])

\* how="left": the prices of the right row with the line's key, NaN without one
\* (validate="m:1" holds: drop_duplicates left one right row per key)
MergeLeft(ped, right) ==
  [i \in 1..Len(ped) |->
     LET k  == norm_text(ped[i].producto)
         rk == Keys(right)
         m  == {j \in 1..Len(right) : rk[j] = k}
     IN  IF m = {}
         THEN [producto |-> ped[i].producto, cantidad |-> ped[i].cantidad,
               descuento |-> ped[i].descuento,
               precio_compra |-> NA, precio_venta |-> NA]
         ELSE LET j == CHOOSE x \in m : TRUE
              IN  [producto |-> ped[i].producto, cantidad |-> ped[i].cantidad,
                   descuento |-> ped[i].descuento,
                   precio_compra |-> right[j].precio_compra,
                   precio_venta |-> right[j].precio_venta]]

\* Series.unique(): first occurrences, in order of appearance
unique(col) ==
  SelectRows(col, [i \in 1..Len(col) |-> \A j \in 1..(i - 1) : col[j] # col[i]])

\* Series.dropna()
dropna(col) == SelectRows(col, [i \in 1..Len(col) |-> ~col[i].na])

\* df[df["precio venta"].isna() | df["precio compra"].isna()]["producto"]
MissingColumn(df) ==
  LET sel == SelectRows(df,
               [i \in 1..Len(df) |-> df[i].precio_venta.na \/ df[i].precio_compra.na])
  IN  [i \in 1..Len(sel) |-> sel[i].producto]

\* Series.replace({0: pd.NA})
replace_zero(a) == IF IsZero(a) THEN NA ELSE a

\* the derived columns of one line
DetalleRow(r) ==
  LET descuento == fillna(r.descuento, Num(0))
      cantidad  == fillna(r.cantidad, Num(0))
      aplicado  == Mul(r.precio_venta, Sub(Num(1), descuento))
      ingreso   == Mul(cantidad, aplicado)
      costo     == Mul(cantidad, r.precio_compra)
      utilidad  == Sub(ingreso, costo)
  IN  [producto              |-> r.producto,
       cantidad              |-> cantidad,
       descuento             |-> descuento,
       precio_venta          |-> r.precio_venta,
       precio_venta_aplicado |-> aplicado,
       precio_compra         |-> r.precio_compra,
       ingreso_linea         |-> ingreso,
       costo_linea           |-> costo,
       utilidad_linea        |-> utilidad,
       margen_linea          |-> Div(utilidad, replace_zero(ingreso))]

Resumen(detalle) ==
  LET total_ingreso == SumSkipNA([i \in 1..Len(detalle) |-> detalle[i].ingreso_linea])
      total_costo   == SumSkipNA([i \in 1..Len(detalle) |-> detalle[i].costo_linea])
      total_util    == SumSkipNA([i \in 1..Len(detalle) |-> detalle[i].utilidad_linea])
  IN  [ingreso_total    |-> total_ingreso,
       costo_total      |-> total_costo,
       utilidad_total   |-> total_util,
       margen_ponderado |-> IF ~IsZero(total_ingreso)
                            THEN Div(total_util, total_ingreso) ELSE Num(0)]

NoResumen ==
  [ingreso_total |-> NA, costo_total |-> NA, utilidad_total |-> NA,
   margen_ponderado |-> NA]

Failed(op, e) ==
  [op |-> op, err |-> e, rows |-> <<>>, missing |-> <<>>, detalle |-> <<>>,
   resumen |-> NoResumen]

\* the steps calcular and main share, from the de-duplication to the summary;
\* they differ in the merge suffixes and in the dropna() of the missing list
Enrich(op, cat, ped, pol, suffixes, drop) ==
  LET clean == deduplicate_catalog(cat, pol)
      df    == MergeLeft(ped, drop_duplicates(clean.rows))
      cols  == MergedColumns(PedColumns, CatColumns, "producto_norm", suffixes)
      miss  == IF drop THEN dropna(MissingColumn(df)) ELSE MissingColumn(df)
      det   == [i \in 1..Len(df) |-> DetalleRow(df[i])]
  IN  IF clean.err # "none" THEN Failed(op, clean.err)
      ELSE IF "producto" \notin Range(cols) THEN Failed(op, "KeyError")
      ELSE [op |-> op, err |-> "none", rows |-> clean.rows,
            missing |-> unique(miss), detalle |-> det, resumen |-> Resumen(det)]

\* calcular: merge(..., validate="m:1") with the default suffixes
calcular(cat, ped, pol) == Enrich("calcular", cat, ped, pol, <<"_x", "_y">>, TRUE)

\* main of downloads/calc_pedido.py: merge(..., suffixes=("", "_cat"))
main(cat, ped, pol) == Enrich("main", cat, ped, pol, <<"", "_cat">>, FALSE)

(***************************************************************************)
(* State machine.                                                          *)
(***************************************************************************)
VARIABLES df_cat, df_ped, policy, pc, result

vars == <<df_cat, df_ped, policy, pc, result>>

NoResult == Failed("none", "none")

\* one run of the script: catalog, order and policy as loaded
Init ==
  /\ df_cat \in SeqsUpTo(CatalogRows, MaxRows)
  /\ df_ped \in SeqsUpTo(PedidoRows, MaxRows - Len(df_cat))
  /\ policy \in PolicyValues
  /\ pc = "loaded"
  /\ result = NoResult

Calcular ==
  /\ pc = "loaded"
  /\ result' = calcular(df_cat, df_ped, policy)
  /\ pc' = "done"
  /\ UNCHANGED <<df_cat, df_ped, policy>>

Main ==
  /\ pc = "loaded"
  /\ result' = main(df_cat, df_ped, policy)
  /\ pc' = "done"
  /\ UNCHANGED <<df_cat, df_ped, policy>>

Next == Calcular \/ Main

Spec == Init /\ [][Next]_vars

\* deduplicate_catalog on its own, over larger catalogs
InitDedup ==
  /\ df_cat \in SeqsUpTo(CatalogRows, MaxCat)
  /\ df_ped = <<>>
  /\ policy \in PolicyValues
  /\ pc = "loaded"
  /\ result = NoResult

DeduplicateCatalog ==
  /\ pc = "loaded"
  /\ LET r == deduplicate_catalog(df_cat, policy)
     IN  result' = [NoResult EXCEPT !.op = "deduplicate_catalog",
                                    !.err = r.err, !.rows = r.rows]
  /\ pc' = "done"
  /\ UNCHANGED <<df_cat, df_ped, policy>>

NextDedup == DeduplicateCatalog

SpecDedup == InitDedup /\ [][NextDedup]_vars

(***************************************************************************)
(* Vocabulary of the properties, stated on the inputs and outputs only.    *)
(***************************************************************************)
RowsWithKey(df, k) ==
  SelectRows(df, [i \in 1..Len(df) |-> norm_text(df[i].producto) = k])

KeySet(df) == {norm_text(df[i].producto) : i \in 1..Len(df)}

MultiKeys(df) == {k \in KeySet(df) : Len(RowsWithKey(df, k)) >= 2}

SamePrices(g) ==
  \A i \in 1..Len(g) :
    /\ g[i].precio_compra = g[1].precio_compra
    /\ g[i].precio_venta = g[1].precio_venta

NoNullPrices(g) ==
  \A i \in 1..Len(g) : (~g[i].precio_compra.na) /\ (~g[i].precio_venta.na)

Returned == pc = "done" /\ result.err = "none"

DedupDone == pc = "done" /\ result.op = "deduplicate_catalog"

(***************************************************************************)
(* C1. For every catalog and every recognized policy, the catalog that     *)
(* deduplicate_catalog returns has no two rows whose names normalize to    *)
(* the same key, and its keys are exactly the keys of the input.           *)
(***************************************************************************)
C1_OneRowPerKey ==
  (DedupDone /\ Returned /\ policy \in RecognizedPolicies) =>
     /\ \A i, j \in 1..Len(result.rows) :
          i # j => norm_text(result.rows[i].producto) # norm_text(result.rows[j].producto)
     /\ KeySet(result.rows) = KeySet(df_cat)

C1_Witness ==
  /\ DedupDone /\ Returned
  /\ policy \in {"max_venta", "min_costo", "avg"}
  /\ \E k \in MultiKeys(df_cat) : ~SamePrices(RowsWithKey(df_cat, k))
  /\ Len(result.rows) < Len(df_cat)

(***************************************************************************)
(* C2. deduplicate_catalog called with a policy outside first, max_venta,  *)
(* min_costo, avg raises the unknown-policy error, whatever the catalog.   *)
(***************************************************************************)
C2_UnknownPolicyAlwaysFails ==
  (DedupDone /\ policy \notin RecognizedPolicies) => result.err = "ValueError"

(***************************************************************************)
(* C3. A group of two or more rows that all carry the same purchase price  *)
(* and the same sale price (null equal to null) resolves to its first row  *)
(* under every policy value, and a returned catalog holds exactly that row *)
(* for the key.                                                            *)
(***************************************************************************)
C3_EqualitySkipPrecedence ==
  DedupDone =>
    \A k \in MultiKeys(df_cat) :
      LET g == RowsWithKey(df_cat, k)
      IN  SamePrices(g) =>
            /\ \A p \in PolicyValues : DedupGroup(g, p) = Ok(g[1])
            /\ Returned => RowsWithKey(result.rows, k) = <<g[1]>>

C3_Witness ==
  /\ DedupDone /\ Returned
  /\ policy \notin {"first"}
  /\ \E k \in MultiKeys(df_cat) :
       LET g == RowsWithKey(df_cat, k)
       IN  SamePrices(g) /\ g[1].precio_compra.na /\ g[2].producto # g[1].producto

(***************************************************************************)
(* C4. Under max_venta, min_costo or avg, a group with price disagreement  *)
(* that has a null in the compared column makes deduplicate_catalog raise. *)
(***************************************************************************)
NullInCompared(g, p) ==
  \/ p \in {"max_venta", "avg"} /\ \E i \in 1..Len(g) : g[i].precio_venta.na
  \/ p \in {"min_costo", "avg"} /\ \E i \in 1..Len(g) : g[i].precio_compra.na

C4_NullNeverCoerced ==
  (/\ DedupDone
   /\ policy \in {"max_venta", "min_costo", "avg"}
   /\ \E k \in MultiKeys(df_cat) :
        LET g == RowsWithKey(df_cat, k)
        IN  (~SamePrices(g)) /\ NullInCompared(g, policy))
  => result.err # "none"

(***************************************************************************)
(* C5. For a group with price disagreement and no null price, max_venta    *)
(* keeps the first row in input order whose sale price is the group        *)
(* maximum and min_costo the first row whose purchase price is the group   *)
(* minimum; both prices of the kept row come from that one input row.      *)
(***************************************************************************)
FirstMaxVenta(g) ==
  CHOOSE i \in 1..Len(g) :
    /\ \A j \in 1..Len(g) : ~NumLess(g[i].precio_venta, g[j].precio_venta)
    /\ \A j \in 1..(i - 1) : g[j].precio_venta # g[i].precio_venta

FirstMinCompra(g) ==
  CHOOSE i \in 1..Len(g) :
    /\ \A j \in 1..Len(g) : ~NumLess(g[j].precio_compra, g[i].precio_compra)
    /\ \A j \in 1..(i - 1) : g[j].precio_compra # g[i].precio_compra

Resolved == deduplicate_catalog(df_cat, policy)

\* calcular or main has run on a catalog that was resolved
EnrichDone ==
  /\ pc = "done"
  /\ result.op \in {"calcular", "main"}
  /\ Resolved.err = "none"

Matches(i) == RowsWithKey(Resolved.rows, norm_text(df_ped[i].producto))

ZeroIfNull(a) == IF a.na THEN Num(0) ELSE a

RECURSIVE Total(_)
Total(col) ==
  IF col = <<>> THEN Num(0) ELSE Add(ZeroIfNull(Head(col)), Total(Tail(col)))

Ingresos == [i \in 1..Len(result.detalle) |-> result.detalle[i].ingreso_linea]

Costos == [i \in 1..Len(result.detalle) |-> result.detalle[i].costo_linea]

Utilidades == [i \in 1..Len(result.detalle) |-> result.detalle[i].utilidad_linea]

UnmatchedIsAbsentKeys ==
  Range(result.missing) =
    {df_ped[i].producto : i \in {j \in 1..Len(df_ped) : Matches(j) = <<>>}}

JoinIsPositionwise ==
  /\ Len(result.detalle) = Len(df_ped)
  /\ \A i \in 1..Len(df_ped) :
       LET d == result.detalle[i]
       IN  /\ d.producto = df_ped[i].producto
           /\ IF Matches(i) # <<>>
              THEN /\ d.precio_compra = Matches(i)[1].precio_compra
                   /\ d.precio_venta = Matches(i)[1].precio_venta
              ELSE /\ d.precio_compra.na /\ d.precio_venta.na
                   /\ d.precio_venta_aplicado.na /\ d.ingreso_linea.na
                   /\ d.costo_linea.na /\ d.utilidad_linea.na

SummaryIsAggregate ==
  /\ result.resumen.ingreso_total = Total(Ingresos)
  /\ result.resumen.costo_total = Total(Costos)
  /\ result.resumen.utilidad_total = Total(Utilidades)
  /\ result.resumen.margen_ponderado =
       IF IsZero(result.resumen.ingreso_total) THEN Num(0)
       ELSE Div(result.resumen.utilidad_total, result.resumen.ingreso_total)

LineMarginAsymmetry ==
  /\ Len(result.detalle) = Len(df_ped)
  /\ \A i \in 1..Len(result.detalle) :
       LET d == result.detalle[i]
       IN  /\ ((~d.ingreso_linea.na) /\ ~IsZero(d.ingreso_linea))
                => d.margen_linea = Div(d.utilidad_linea, d.ingreso_linea)
           /\ IsZero(d.ingreso_linea) => d.margen_linea.na
           /\ (Matches(i) # <<>> /\ IsZero(ZeroIfNull(df_ped[i].cantidad)))
                => /\ d.margen_linea.na
                   /\ IsZero(ZeroIfNull(d.ingreso_linea))
                   /\ IsZero(ZeroIfNull(d.costo_linea))
                   /\ IsZero(ZeroIfNull(d.utilidad_linea))

SummaryIsConsistent ==
  result.resumen.utilidad_total =
    Sub(result.resumen.ingreso_total, result.resumen.costo_total)

(***************************************************************************)
(* C6. For an order with at least one line, the unmatched list is exactly  *)
(* the set of product names of the order lines whose key is absent from    *)
(* the resolved catalog, and reporting it never aborts the run.            *)
(***************************************************************************)
C6_UnmatchedList ==
  (EnrichDone /\ df_ped # <<>>) => (result.err = "none" /\ UnmatchedIsAbsentKeys)

(***************************************************************************)
(* C7. For an order with at least one line, the detail has one line per    *)
(* order line, in order; line i carries the prices of the catalog row with *)
(* the same normalized name, or null prices, applied price, revenue, cost  *)
(* and profit without such a row.                                          *)
(***************************************************************************)
C7_PositionwiseJoin ==
  (EnrichDone /\ df_ped # <<>>) => (result.err = "none" /\ JoinIsPositionwise)

(***************************************************************************)
(* C8. The summary totals are the sums of the per-line fields with null    *)
(* counted as zero; the weighted margin is total profit over total revenue *)
(* and exactly 0 when total revenue is zero.                               *)
(***************************************************************************)
C8_SummaryAggregation ==
  EnrichDone => (result.err = "none" /\ SummaryIsAggregate)

(***************************************************************************)
(* C9. Every order line has a detail line, with margin profit / revenue    *)
(* when revenue is nonzero and a null margin when revenue is zero; a       *)
(* matched line of quantity 0 has a null margin and adds 0 to the totals.  *)
(***************************************************************************)
C9_LineMargin ==
  (EnrichDone /\ df_ped # <<>>) => (result.err = "none" /\ LineMarginAsymmetry)

(***************************************************************************)
(* C10. Every summary that is produced satisfies total_profit =            *)
(* total_revenue - total_cost, also for catalogs with a null purchase or   *)
(* sale price.                                                             *)
(***************************************************************************)
C10_SummaryConsistency ==
  (EnrichDone /\ result.err = "none") => SummaryIsConsistent

(***************************************************************************)
(* What the run of main (downloads/calc_pedido.py), which does return,     *)
(* satisfies: the join, the aggregation and the line margin as stated in   *)
(* C7, C8 and C9.                                                          *)
(***************************************************************************)
MainDone == EnrichDone /\ result.op = "main"

Main_Returns == MainDone => result.err = "none"

Main_PositionwiseJoin == MainDone => JoinIsPositionwise

Main_SummaryAggregation == MainDone => SummaryIsAggregate

Main_LineMargin == MainDone => LineMarginAsymmetry

\* the list main reports: the names of the lines that have no catalog row or
\* a catalog row with a null price
Main_MissingIsNullPriced ==
  MainDone =>
    Range(result.missing) =
      {df_ped[i].producto :
         i \in {j \in 1..Len(df_ped) :
                  \/ Matches(j) = <<>>
                  \/ Matches(j)[1].precio_venta.na
                  \/ Matches(j)[1].precio_compra.na}}

\* and calcular never returns
Calcular_Raises == (pc = "done" /\ result.op = "calcular") => result.err # "none"

====
